---- MODULE Spec2Model ----
(***************************************************************************)
(* A model of the notebooks of ARIA-tools-docs:                            *)
(*   JupyterDocs/GDAL_basics/GDAL_basics.ipynb   (with the ariaDownload    *)
(*                                                tutorial stored after it) *)
(*   JupyterDocs/ariaPlot/ariaPlot_tutorial.ipynb                          *)
(* A notebook is a list of sections, a section a list of code cells, a     *)
(* cell a list of statements.  The kernel runs one statement at a time.    *)
(* Text (paths, command lines, option strings) is a sequence of lexemes:   *)
(* a word of the text, or one of the characters that the shell, GDAL or    *)
(* os.path give a meaning to (space, quotes, slash, colon, braces).        *)
(* Numerals are written digit by digit so that they can be parsed.         *)
(***************************************************************************)
EXTENDS Integers, Sequences, FiniteSets, TLC

VARIABLES
  nb,        \* the notebook the session runs: "gdal", "plot" or "dl"
  kernel,    \* "idle", "busy" (a cell is executing), "wait" (blocked on a process)
  cur,       \* index of the section being run, 0 when none
  ci,        \* index of the current cell in the section
  si,        \* index of the next statement of the current cell
  order,     \* the sections completed so far, in the order they were run
  ns,        \* the Python namespace of the session: name -> value
  cwd,       \* the working directory of the kernel process (text)
  fs,        \* the files and directories on disk: records [path, writer]
  procs,     \* the external processes that are running
  faults,    \* the exceptions that reached the user: records [cell, line, kind]
  failed,    \* the library calls that failed: records [cell, line, call]
  trlog,     \* the raster translations performed: records [cell, by, op]
  extdeps,   \* uses by a cell of disk state another cell wrote
  aborted,   \* TRUE once a cell has raised: the user stops there
  pl,        \* the frame of the running call of plot_layer
  loc        \* the local values of a cell whose arithmetic is followed

kvars == <<nb, kernel, cur, ci, si, order, ns, cwd, fs, procs, faults, failed,
           trlog, extdeps, aborted, pl>>

vars == <<kvars, loc>>

----------------------------------------------------------------------------
(* Lexemes with a meaning of their own *)

SP == " "
DQ == "\""
SQ == "'"
SLASH == "/"
COLON == ":"
DOT == "."
LBRACE == "{"
RBRACE == "}"
MINUS == "-"

Digits == <<"0", "1", "2", "3", "4", "5", "6", "7", "8", "9">>

----------------------------------------------------------------------------
(* Text helpers *)

Last(s) == s[Len(s)]

Front(s) == SubSeq(s, 1, Len(s) - 1)

Range(s) == {s[i] : i \in 1..Len(s)}

\* op folded over the elements of s from the left, starting from st.  The
\* sequence is halved and the left half is evaluated before the right half is
\* entered, which keeps the evaluation shallow for long texts.
RECURSIVE Fold(_, _, _)
Fold(Op(_, _), st, s) ==
  IF s = <<>> THEN st
  ELSE IF Len(s) = 1 THEN Op(st, s[1])
  ELSE LET h == Len(s) \div 2
           left == Fold(Op, st, SubSeq(s, 1, h))
       IN IF left = left THEN Fold(Op, left, SubSeq(s, h + 1, Len(s))) ELSE left

\* str.split(sep): the pieces of s between the occurrences of sep
SplitOn(s, sep) ==
  LET step(st, c) ==
        IF c = sep THEN [piece |-> <<>>, acc |-> Append(st.acc, st.piece)]
        ELSE [piece |-> Append(st.piece, c), acc |-> st.acc]
      end == Fold(step, [piece |-> <<>>, acc |-> <<>>], s)
  IN Append(end.acc, end.piece)

\* sep.join(pieces)
RECURSIVE JoinWith(_, _)
JoinWith(pieces, sep) ==
  IF pieces = <<>> THEN <<>>
  ELSE IF Len(pieces) = 1 THEN Head(pieces)
  ELSE Head(pieces) \o <<sep>> \o JoinWith(Tail(pieces), sep)

IsAbs(p) == p # <<>> /\ Head(p) = SLASH

\* os.path.join(a, b)
PathJoin(a, b) ==
  IF IsAbs(b) THEN b
  ELSE IF a = <<>> \/ Last(a) = SLASH THEN a \o b
  ELSE a \o <<SLASH>> \o b

\* the loop of os.path.normpath over the components of a path
RECURSIVE NormComps(_, _, _)
NormComps(comps, abs, acc) ==
  IF comps = <<>> THEN acc
  ELSE LET c == Head(comps) r == Tail(comps) IN
       IF c = <<>> \/ c = <<DOT>> THEN NormComps(r, abs, acc)
       ELSE IF c # <<"..">> \/ (~abs /\ acc = <<>>)
                 \/ (acc # <<>> /\ Last(acc) = <<"..">>)
            THEN NormComps(r, abs, Append(acc, c))
       ELSE IF acc # <<>> THEN NormComps(r, abs, Front(acc))
       ELSE NormComps(r, abs, acc)

\* os.path.normpath(p)
NormPath(p) ==
  IF p = <<>> THEN <<DOT>>
  ELSE LET abs == IsAbs(p)
           body == JoinWith(NormComps(SplitOn(p, SLASH), abs, <<>>), SLASH)
           out == IF abs THEN <<SLASH>> \o body ELSE body
       IN IF out = <<>> THEN <<DOT>> ELSE out

\* os.path.abspath(p) in working directory d; also how a process started in d
\* resolves the path p
AbsPath(d, p) == NormPath(IF IsAbs(p) THEN p ELSE PathJoin(d, p))

\* os.path.dirname(p)
DirName(p) ==
  LET pieces == SplitOn(p, SLASH)
      head == JoinWith(Front(pieces), SLASH)
  IN IF Len(pieces) = 1 THEN <<>>
     ELSE IF head = <<>> THEN <<SLASH>> ELSE head

\* the state of a scan of a command line: the quote that is open (q), the
\* word being read, and the words read
ScanStart == [q |-> "", word |-> <<>>, inword |-> FALSE, acc |-> <<>>]

ScanEnd(st) == IF st.inword THEN Append(st.acc, st.word) ELSE st.acc

\* the word splitting and quote removal of the shell that runs a "!" line
ShellStep(st, c) ==
  IF st.q # "" THEN
    IF c = st.q THEN [st EXCEPT !.q = "", !.inword = TRUE]
    ELSE [st EXCEPT !.word = Append(@, c), !.inword = TRUE]
  ELSE IF c = DQ \/ c = SQ THEN [st EXCEPT !.q = c, !.inword = TRUE]
  ELSE IF c = SP THEN
    [q |-> "", word |-> <<>>, inword |-> FALSE, acc |-> ScanEnd(st)]
  ELSE [st EXCEPT !.word = Append(@, c), !.inword = TRUE]

ShellSplit(line) == ScanEnd(Fold(ShellStep, ScanStart, line))

\* gdal.ParseCommandLine(text): split at blanks, honouring double quotes
CslStep(st, c) ==
  IF c = DQ THEN [st EXCEPT !.q = IF @ = "" THEN DQ ELSE "", !.inword = TRUE]
  ELSE IF c = SP /\ st.q = "" THEN
    [q |-> "", word |-> <<>>, inword |-> FALSE, acc |-> ScanEnd(st)]
  ELSE [st EXCEPT !.word = Append(@, c), !.inword = TRUE]

ParseCommandLine(text) == ScanEnd(Fold(CslStep, ScanStart, text))

----------------------------------------------------------------------------
(* Python values, expressions and statements *)

\* A value bound to a Python name: tag is "mod" (module), "str" (text v),
\* "ds" (open GDAL dataset, v = <<file, sub-dataset>>), "None", "opts"
\* (gdal.TranslateOptions, v = the option words), "fn" or "obj" (any other)
Val(tag, v) == [tag |-> tag, v |-> v]

NoneVal == Val("None", <<>>)

\* text-valued expressions of the cells
ELit(t) == [k |-> "lit", t |-> t]

EVar(n) == [k |-> "var", n |-> n]

ECwd == [k |-> "getcwd"]

EJoin(a, b) == [k |-> "join", a |-> a, b |-> b]

EAbs(a) == [k |-> "abspath", a |-> a]

ECat(a, b) == [k |-> "cat", a |-> a, b |-> b]

RECURSIVE VarsOf(_)
VarsOf(e) ==
  CASE e.k = "lit" -> {}
    [] e.k = "var" -> {e.n}
    [] e.k = "getcwd" -> {}
    [] e.k = "join" -> VarsOf(e.a) \cup VarsOf(e.b)
    [] e.k = "abspath" -> VarsOf(e.a)
    [] e.k = "cat" -> VarsOf(e.a) \cup VarsOf(e.b)

\* the text an expression evaluates to in namespace env and directory d
RECURSIVE Eval(_, _, _)
Eval(e, env, d) ==
  CASE e.k = "lit" -> e.t
    [] e.k = "var" -> env[e.n].v
    [] e.k = "getcwd" -> d
    [] e.k = "join" -> PathJoin(Eval(e.a, env, d), Eval(e.b, env, d))
    [] e.k = "abspath" -> AbsPath(d, Eval(e.a, env, d))
    [] e.k = "cat" -> Eval(e.a, env, d) \o Eval(e.b, env, d)

\* IPython's expansion of {name} in a "!" line; a name that is not bound is
\* left as written
Expand(line, env) ==
  LET step(st, c) ==
        IF st.pend = <<>> THEN
          IF c = LBRACE THEN [st EXCEPT !.pend = <<c>>]
          ELSE [st EXCEPT !.out = Append(@, c)]
        ELSE IF Len(st.pend) = 1 THEN [st EXCEPT !.pend = Append(@, c)]
        ELSE IF c = RBRACE /\ st.pend[2] \in DOMAIN env THEN
          [out |-> st.out \o env[st.pend[2]].v, pend |-> <<>>]
        ELSE [out |-> st.out \o st.pend \o <<c>>, pend |-> <<>>]
      end == Fold(step, [out |-> <<>>, pend |-> <<>>], line)
  IN end.out \o end.pend

\* statements; uses = the names read, handles = the names a dataset method is
\* called on, tgts = the names bound, line = the line of the notebook file
SImport(names, line) ==
  [op |-> "import", line |-> line, uses |-> {}, handles |-> {}, tgts |-> names]

SDef(name, uses, line) ==
  [op |-> "def", line |-> line, uses |-> {}, handles |-> {}, tgts |-> {name},
   body |-> uses]

SAssign(tgt, e, mods, line) ==
  [op |-> "assign", line |-> line, uses |-> mods \cup VarsOf(e), handles |-> {},
   tgts |-> {tgt}, e |-> e]

SCallBind(tgts, uses, handles, line) ==
  [op |-> "call", line |-> line, uses |-> uses \cup handles, handles |-> handles,
   tgts |-> tgts]

SUseExceptions(line) ==
  [op |-> "useexc", line |-> line, uses |-> {"gdal"}, handles |-> {}, tgts |-> {}]

SOpen(tgt, e, line) ==
  [op |-> "open", line |-> line, uses |-> {"gdal"} \cup VarsOf(e),
   handles |-> {}, tgts |-> {tgt}, e |-> e]

SClose(tgt, line) ==
  [op |-> "close", line |-> line, uses |-> {}, handles |-> {}, tgts |-> {tgt}]

SMakedirs(e, line) ==
  [op |-> "makedirs", line |-> line, uses |-> {"os"} \cup VarsOf(e),
   handles |-> {}, tgts |-> {}, e |-> e]

SChdir(e, line) ==
  [op |-> "chdir", line |-> line, uses |-> {"os"} \cup VarsOf(e),
   handles |-> {}, tgts |-> {}, e |-> e]

SOptions(tgt, text, line) ==
  [op |-> "options", line |-> line, uses |-> {"gdal"}, handles |-> {},
   tgts |-> {tgt}, text |-> text]

STranslate(tgt, dst, src, opts, line) ==
  [op |-> "translate", line |-> line, uses |-> {"gdal", src, opts},
   handles |-> {src}, tgts |-> {tgt}, dst |-> dst, src |-> src, opts |-> opts]

SSh(cmd, line) ==
  [op |-> "sh", line |-> line, uses |-> {}, handles |-> {}, tgts |-> {},
   cmd |-> cmd]

SPlotLayer(path, laytype, line) ==
  [op |-> "plot_layer", line |-> line, uses |-> {"plot_layer"}, handles |-> {},
   tgts |-> {}, path |-> path, laytype |-> laytype]

Cell(id, stmts) == [id |-> id, stmts |-> stmts]

\* prep: a section that is run first, in document order; the others are run
\* after the prep sections, in any order
Section(name, prep, cells) == [name |-> name, prep |-> prep, cells |-> cells]

----------------------------------------------------------------------------
(* The code cells of GDAL_basics.ipynb *)

G_PrepA ==
  Cell("gdal:A", <<
    SImport({"os", "sys"}, 58),
    SImport({"gdal", "osr"}, 59),
    SImport({"np"}, 60),
    SImport({"plt"}, 61),
    SAssign("home_dir", ECwd, {"os"}, 64),
    SAssign("tutorial_home_dir",
            EAbs(EJoin(EVar("home_dir"), ELit(<<>>))), {"os"}, 65),
    SAssign("data_dir",
            EJoin(EVar("tutorial_home_dir"), ELit(<<"products">>)), {"os"}, 66),
    SCallBind({}, {"tutorial_home_dir"}, {}, 67),
    SUseExceptions(71),
    SAssign("fileName",
            EJoin(EVar("data_dir"), ELit(<<"S1-GUNW-A-R-077-tops-20190222_20190210-231605-42666N_40796N-PP-d75b-v2_0_1", ".nc">>)), {"os"}, 74),
    SMakedirs(EVar("tutorial_home_dir"), 77),
    SMakedirs(EVar("data_dir"), 79),
    SChdir(EVar("tutorial_home_dir"), 81) >>)

G_Download ==
  Cell("gdal:B", <<
    SChdir(EVar("tutorial_home_dir"), 167),
    SSh(<<"ariaDownload.py", SP, MINUS, MINUS, "bbox", SP,
          DQ, "4", "1", DOT, "5", SP, "4", "2", SP, MINUS, "8", "2", SP,
          MINUS, "7", "8", DQ, SP,
          MINUS, MINUS, "ifg", SP, "20190222_20190210", SP, MINUS, "v", SP, MINUS, "w", SP,
          LBRACE, "data_dir", RBRACE>>, 168) >>)

G_11_Open == Cell("gdal:1.1a", << SOpen("ds", EVar("fileName"), 218) >>)

G_11_Info ==
  Cell("gdal:1.1b", <<
    SCallBind({"dataInfo"}, {"gdal"}, {"ds"}, 240),
    SCallBind({}, {"dataInfo"}, {}, 242),
    SClose("ds", 244) >>)

G_12_Gdalinfo ==
  Cell("gdal:1.2", <<
    SSh(<<"gdalinfo", SP, DOT, SLASH, "products", SLASH, "S1-GUNW-A-R-077-tops-20190222_20190210-231605-42666N_40796N-PP-d75b-v2_0_1", ".nc">>, 275) >>)

G_21_Open ==
  Cell("gdal:2.1a", <<
    SOpen("unwPhase",
          ECat(ECat(ELit(<<"NETCDF", COLON>>), EVar("fileName")),
               ELit(<<COLON, SLASH, "science", SLASH, "grids", SLASH, "data", SLASH,
           "unwrappedPhase">>)), 358),
    SCallBind({"unwPhaseInfo"}, {"gdal"}, {"unwPhase"}, 360),
    SCallBind({}, {"unwPhaseInfo"}, {}, 362) >>)

\* the statistics cell without its closing statement
G_21_StatsOpen ==
  Cell("gdal:2.1b", <<
    SCallBind({"stats"}, {}, {"unwPhase"}, 392),
    SCallBind({}, {"stats"}, {}, 394) >>)

G_21_Stats ==
  Cell("gdal:2.1b", <<
    SCallBind({"stats"}, {}, {"unwPhase"}, 392),
    SCallBind({}, {"stats"}, {}, 394),
    SClose("unwPhase", 399) >>)

\* the gdalinfo cell naming another version of the product
G_22_InfoOtherProduct ==
  Cell("gdal:2.2a", <<
    SSh(<<"gdalinfo", SP, "NETCDF", COLON, DQ, DOT, SLASH, "products", SLASH,
          "S1-GUNW-A-R-077-tops-20190222_20190210-231605-42666N_40796N-PP-d75b-v2_0_0", ".nc", DQ,
          COLON, SLASH, "science", SLASH, "grids", SLASH, "data", SLASH,
           "unwrappedPhase">>, 440) >>)

G_22_Info ==
  Cell("gdal:2.2a", <<
    SSh(<<"gdalinfo", SP, "NETCDF", COLON, DQ, DOT, SLASH, "products", SLASH,
          "S1-GUNW-A-R-077-tops-20190222_20190210-231605-42666N_40796N-PP-d75b-v2_0_1", ".nc", DQ,
          COLON, SLASH, "science", SLASH, "grids", SLASH, "data", SLASH,
           "unwrappedPhase">>, 440) >>)

G_22_Stats ==
  Cell("gdal:2.2b", <<
    SSh(<<"gdalinfo", SP, "NETCDF", COLON, DQ, DOT, SLASH, "products", SLASH,
          "S1-GUNW-A-R-077-tops-20190222_20190210-231605-42666N_40796N-PP-d75b-v2_0_1", ".nc", DQ,
          COLON, SLASH, "science", SLASH, "grids", SLASH, "data", SLASH,
           "unwrappedPhase", SP, MINUS, "stats">>, 471) >>)

G_23_Srs ==
  Cell("gdal:2.3", <<
    SSh(<<"gdalsrsinfo", SP, DQ, "EPSG", COLON, "4326", DQ>>, 501) >>)

G_31_Load ==
  Cell("gdal:3.1a", <<
    SOpen("unwPhase",
          ECat(ECat(ELit(<<"NETCDF", COLON>>), EVar("fileName")),
               ELit(<<COLON, SLASH, "science", SLASH, "grids", SLASH, "data", SLASH,
           "unwrappedPhase">>)), 564),
    SCallBind({"unwData"}, {}, {"unwPhase"}, 567),
    SCallBind({}, {"unwData"}, {}, 571) >>)

G_31_Corners ==
  Cell("gdal:3.1b", <<
    SCallBind({"projection"}, {"osr"}, {}, 592),
    SCallBind({}, {"projection"}, {"unwPhase"}, 593),
    SCallBind({"ulLon", "Lonres", "Lonskew", "ulLat", "Latskew", "Latres"},
              {}, {"unwPhase"}, 596),
    SCallBind({"lrLon"}, {"ulLon", "Lonres"}, {"unwPhase"}, 597),
    SCallBind({"lrLat"}, {"ulLat", "Latres"}, {"unwPhase"}, 598),
    SCallBind({"ulLon"}, {"np", "ulLon"}, {}, 601),
    SCallBind({"ulLat"}, {"np", "ulLat"}, {}, 602),
    SCallBind({"lrLon"}, {"np", "lrLon"}, {}, 603),
    SCallBind({"lrLat"}, {"np", "lrLat"}, {}, 604),
    SCallBind({}, {"ulLon", "ulLat", "lrLon", "lrLat"}, {}, 607) >>)

G_31_Mask ==
  Cell("gdal:3.1c", <<
    SCallBind({"NDV"}, {}, {"unwPhase"}, 652),
    SClose("unwPhase", 654),
    SOpen("connComp",
          ECat(ECat(ELit(<<"NETCDF", COLON>>), EVar("fileName")),
               ELit(<<COLON, SLASH, "science", SLASH, "grids", SLASH, "data", SLASH,
           "connectedComponents">>)), 657),
    SCallBind({"connCompData"}, {}, {"connComp"}, 658),
    SClose("connComp", 659),
    SCallBind({"unwDataMasked"}, {"np", "unwData", "NDV"}, {}, 663),
    SCallBind({"unwDataMasked"}, {"np", "unwDataMasked", "connCompData"},
              {}, 665) >>)

G_31_Plot ==
  Cell("gdal:3.1d", <<
    SImport({"cimgt"}, 686),
    SImport({"cfeature"}, 687),
    SImport({"ccrs"}, 688),
    SImport({"LongitudeFormatter", "LatitudeFormatter"}, 689),
    SCallBind({"basemap"}, {"cimgt"}, {}, 691),
    SCallBind({"WESN"}, {"ulLon", "lrLon", "lrLat", "ulLat"}, {}, 693),
    SCallBind({"fig", "axes"}, {"plt", "basemap"}, {}, 694),
    SCallBind({}, {"axes", "WESN", "ccrs"}, {}, 695),
    SCallBind({}, {"axes", "basemap"}, {}, 696),
    SCallBind({}, {"axes"}, {}, 697),
    SCallBind({"im"}, {"axes", "unwDataMasked", "WESN", "ccrs"}, {}, 698),
    SCallBind({"cbar_ax"}, {"fig"}, {}, 699),
    SCallBind({}, {"fig", "im", "cbar_ax"}, {}, 700),
    SCallBind({}, {"axes", "np", "WESN", "ccrs"}, {}, 701),
    SCallBind({}, {"axes", "np", "WESN", "ccrs"}, {}, 702),
    SCallBind({}, {"axes"}, {}, 703),
    SCallBind({"lon_formatter"}, {"LongitudeFormatter"}, {}, 704),
    SCallBind({"lat_formatter"}, {"LatitudeFormatter"}, {}, 705),
    SCallBind({}, {"axes", "lon_formatter"}, {}, 706),
    SCallBind({}, {"axes", "lat_formatter"}, {}, 707),
    SCallBind({}, {"plt"}, {}, 708) >>)

\* the full export relying on the handle an earlier section opened
G_41_FullReuse ==
  Cell("gdal:4.1a", <<
    SOptions("translateOptions",
             <<MINUS, "of", SP, "KMLSUPEROVERLAY", SP, MINUS, "scale", SP, MINUS, "co", SP,
               "format", "=", "png">>, 792),
    STranslate("kmzFile", <<"unwrappedPhase", ".kmz">>, "unwPhase",
               "translateOptions", 793),
    SClose("unwPhase", 796),
    SCallBind({}, {}, {}, 799),
    SSh(<<"ls", SP, "unwrappedPhase", ".kmz">>, 800) >>)

G_41_Full ==
  Cell("gdal:4.1a", <<
    SOpen("unwPhase",
          ECat(ECat(ELit(<<"NETCDF", COLON>>), EVar("fileName")),
               ELit(<<COLON, SLASH, "science", SLASH, "grids", SLASH, "data", SLASH,
           "unwrappedPhase">>)), 789),
    SOptions("translateOptions",
             <<MINUS, "of", SP, "KMLSUPEROVERLAY", SP, MINUS, "scale", SP, MINUS, "co", SP,
               "format", "=", "png">>, 792),
    STranslate("kmzFile", <<"unwrappedPhase", ".kmz">>, "unwPhase",
               "translateOptions", 793),
    SClose("unwPhase", 796),
    SCallBind({}, {}, {}, 799),
    SSh(<<"ls", SP, "unwrappedPhase", ".kmz">>, 800) >>)

G_41_Crop ==
  Cell("gdal:4.1b", <<
    SOpen("unwPhase",
          ECat(ECat(ELit(<<"NETCDF", COLON>>), EVar("fileName")),
               ELit(<<COLON, SLASH, "science", SLASH, "grids", SLASH, "data", SLASH,
           "unwrappedPhase">>)), 831),
    SOptions("translateOptions",
             <<MINUS, "of", SP, "KMLSUPEROVERLAY", SP, MINUS, "scale", SP, MINUS, "co", SP,
               "format", "=", "png", SP, MINUS, "projwin", SP,
               MINUS, "8", "1", DOT, "0", "0", SP,
               "4", "2", DOT, "3", "0", SP,
               MINUS, "8", "0", DOT, "0", "0", SP,
               "4", "1", DOT, "5", "0">>, 833),
    STranslate("kmzFileCrop", <<"unwrappedPhaseCrop", ".kmz">>, "unwPhase",
               "translateOptions", 834),
    SClose("unwPhase", 837),
    SCallBind({}, {}, {}, 840),
    SSh(<<"ls", SP, "unwrappedPhaseCrop", ".kmz">>, 841) >>)

\* the command-line export without -scale
G_42_FullNoScale ==
  Cell("gdal:4.2a", <<
    SSh(<<"gdal_translate", SP, SP, MINUS, "of", SP, "KMLSUPEROVERLAY", SP,
          MINUS, "co", SP, "format", "=", "png", SP,
          DQ, "NETCDF", COLON, DOT, SLASH, "products", SLASH,
          "S1-GUNW-A-R-077-tops-20190222_20190210-231605-42666N_40796N-PP-d75b-v2_0_1", ".nc",
          COLON, SLASH, "science", SLASH, "grids", SLASH, "data", SLASH,
           "unwrappedPhase", DQ, SP,
          "unwrappedPhase", ".kmz">>, 881),
    SSh(<<"ls", SP, "unwrappedPhase", ".kmz">>, 882) >>)

G_42_Full ==
  Cell("gdal:4.2a", <<
    SSh(<<"gdal_translate", SP, SP, MINUS, "of", SP, "KMLSUPEROVERLAY", SP,
          MINUS, "scale", SP, MINUS, "co", SP, "format", "=", "png", SP,
          DQ, "NETCDF", COLON, DOT, SLASH, "products", SLASH,
          "S1-GUNW-A-R-077-tops-20190222_20190210-231605-42666N_40796N-PP-d75b-v2_0_1", ".nc",
          COLON, SLASH, "science", SLASH, "grids", SLASH, "data", SLASH,
           "unwrappedPhase", DQ, SP,
          "unwrappedPhase", ".kmz">>, 881),
    SSh(<<"ls", SP, "unwrappedPhase", ".kmz">>, 882) >>)

\* the cropped command-line export writing over the full export
G_42_CropSameName ==
  Cell("gdal:4.2b", <<
    SSh(<<"gdal_translate", SP, MINUS, "of", SP, "KMLSUPEROVERLAY", SP,
          MINUS, "scale", SP, MINUS, "co", SP, "format", "=", "png", SP,
          MINUS, "projwin", SP,
          MINUS, "8", "1", DOT, "0", "0", SP,
          "4", "2", DOT, "3", "0", SP,
          MINUS, "8", "0", DOT, "0", "0", SP,
          "4", "1", DOT, "5", "0", SP,
          DQ, "NETCDF", COLON, DOT, SLASH, "products", SLASH,
          "S1-GUNW-A-R-077-tops-20190222_20190210-231605-42666N_40796N-PP-d75b-v2_0_1", ".nc",
          COLON, SLASH, "science", SLASH, "grids", SLASH, "data", SLASH,
           "unwrappedPhase", DQ, SP,
          "unwrappedPhase", ".kmz">>, 912),
    SSh(<<"ls", SP, "unwrappedPhase", ".kmz">>, 913) >>)

G_42_Crop ==
  Cell("gdal:4.2b", <<
    SSh(<<"gdal_translate", SP, MINUS, "of", SP, "KMLSUPEROVERLAY", SP,
          MINUS, "scale", SP, MINUS, "co", SP, "format", "=", "png", SP,
          MINUS, "projwin", SP,
          MINUS, "8", "1", DOT, "0", "0", SP,
          "4", "2", DOT, "3", "0", SP,
          MINUS, "8", "0", DOT, "0", "0", SP,
          "4", "1", DOT, "5", "0", SP,
          DQ, "NETCDF", COLON, DOT, SLASH, "products", SLASH,
          "S1-GUNW-A-R-077-tops-20190222_20190210-231605-42666N_40796N-PP-d75b-v2_0_1", ".nc",
          COLON, SLASH, "science", SLASH, "grids", SLASH, "data", SLASH,
           "unwrappedPhase", DQ, SP,
          "unwrappedPhaseCrop", ".kmz">>, 912),
    SSh(<<"ls", SP, "unwrappedPhaseCrop", ".kmz">>, 913) >>)

GdalSections == <<
  Section("A", TRUE, <<G_PrepA>>),
  Section("B", TRUE, <<G_Download>>),
  Section("1", FALSE, <<G_11_Open, G_11_Info, G_12_Gdalinfo>>),
  Section("2", FALSE, <<G_21_Open, G_21_Stats, G_22_Info, G_22_Stats, G_23_Srs>>),
  Section("3", FALSE, <<G_31_Load, G_31_Corners, G_31_Mask, G_31_Plot>>),
  Section("4", FALSE, <<G_41_Full, G_41_Crop, G_42_Full, G_42_Crop>>) >>

----------------------------------------------------------------------------
(* The code cells of ariaPlot_tutorial.ipynb *)

P_PrepA ==
  Cell("plot:A", <<
    SImport({"os"}, 63),
    SImport({"gdal", "ogr"}, 64),
    SImport({"np"}, 65),
    SImport({"plt"}, 66),
    SImport({"FuncFormatter", "FormatStrFormatter", "StrMethodFormatter"}, 67),
    SImport({"make_axes_locatable"}, 68),
    SDef("plot_layer",
         {"os", "gdal", "np", "plt", "make_axes_locatable", "FuncFormatter"}, 72) >>)

P_Download ==
  Cell("plot:B1", <<
    SSh(<<"ariaDownload.py", SP, MINUS, "t", SP, "4", "2", SP, MINUS, "e", SP, "20160101",
          SP, SP, MINUS, MINUS, "bbox", SP,
          DQ, "3", "7", DOT, "2", "5", SP, "3", "8", DOT, "1", SP,
          MINUS, "1", "2", "2", DOT, "6", SP,
          MINUS, "1", "2", "1", DOT, "7", "5", DQ>>, 273) >>)

P_LsProducts == Cell("plot:B2", << SSh(<<"ls", SP, "products">>, 293) >>)

P_Help == Cell("plot:help", << SSh(<<"ariaPlot.py", SP, MINUS, "h">>, 334) >>)

\* the qualitative plots without the average-coherence raster
P_QualitativeNoAvg ==
  Cell("plot:Q1", <<
    SSh(<<"ariaPlot.py", SP, MINUS, "f", SP, DQ, "products", SLASH, "*", ".nc", DQ,
          SP, SP, SP, MINUS, MINUS, "plotcoh", SP, MINUS, MINUS, "plotbperpcoh">>,
        491) >>)

P_Qualitative ==
  Cell("plot:Q1", <<
    SSh(<<"ariaPlot.py", SP, MINUS, "f", SP, DQ, "products", SLASH, "*", ".nc", DQ,
          SP, SP, SP, MINUS, MINUS, "plotcoh", SP, MINUS, MINUS, "plotbperpcoh", SP, MINUS, MINUS, "makeavgoh">>,
        491) >>)

P_LsFigures == Cell("plot:Q2", << SSh(<<"ls", SP, "figures">>, 511) >>)

P_PlotAvgCoh ==
  Cell("plot:Q3", <<
    SPlotLayer(<<"figures", SLASH, "avgcoherence", ".vrt">>, <<"coherence">>,
               598) >>)

\* the spatial-coverage cell with an option the tutorial does not document
P_TracksUndocumented ==
  Cell("plot:S1", <<
    SSh(<<"ariaPlot.py", SP, MINUS, "f", SP, SQ, "products", SLASH, "*", ".nc", SQ,
          SP, MINUS, "plotextent">>, 628) >>)

P_Tracks ==
  Cell("plot:S1", <<
    SSh(<<"ariaPlot.py", SP, MINUS, "f", SP, SQ, "products", SLASH, "*", ".nc", SQ,
          SP, MINUS, "plottracks">>, 628) >>)

PlotSections == <<
  Section("A", TRUE, <<P_PrepA>>),
  Section("B", TRUE, <<P_Download, P_LsProducts>>),
  Section("Overview", FALSE, <<P_Help>>),
  Section("Qualitative", FALSE, <<P_Qualitative, P_LsFigures, P_PlotAvgCoh>>),
  Section("Spatial", FALSE, <<P_Tracks>>) >>

----------------------------------------------------------------------------
(* The code cells of the ariaDownload tutorial, stored in GDAL_basics.ipynb *)

D_Usage == Cell("dl:0", << SSh(<<"ariaDownload.py">>, 1039) >>)

D_Count ==
  Cell("dl:1a", <<
    SSh(<<"ariaDownload.py", SP, MINUS, MINUS, "track", SP, "4", SP, MINUS, MINUS, "output", SP,
          "count">>, 1088) >>)

D_Url ==
  Cell("dl:1b", <<
    SSh(<<"ariaDownload.py", SP, MINUS, MINUS, "track", SP, "4", SP, MINUS, MINUS, "output", SP,
          "url">>, 1118) >>)

D_HeadUrl ==
  Cell("dl:1c", <<
    SSh(<<"head", SP, MINUS, "n", SP, "1", "0", SP, "products", SLASH,
          "download_products_4track_0", ".txt">>, 1138) >>)

D_Kmz ==
  Cell("dl:1d", <<
    SSh(<<"ariaDownload.py", SP, MINUS, MINUS, "track", SP, "4", SP, MINUS, MINUS, "output", SP,
          "kmz">>, 1168) >>)

D_Bbox ==
  Cell("dl:2a", <<
    SSh(<<"ariaDownload.py", SP, MINUS, MINUS, "track", SP, "4", SP, MINUS, MINUS, "bbox", SP,
          DQ, "3", "6", DOT, "7", "5", SP, "3", "7", DOT, "2", "2", "5", SP,
          MINUS, "7", "6", DOT, "6", "5", "5", SP,
          MINUS, "7", "5", DOT, "9", "2", "8", DQ, SP, MINUS, "o", SP, "count">>, 1262) >>)

D_Shape ==
  Cell("dl:2b", <<
    SSh(<<"ariaDownload.py", SP, MINUS, MINUS, "track", SP, "4", SP, MINUS, MINUS, "bbox", SP,
          SQ, DOT, SLASH, "support_docs", SLASH, "HR_North", ".shp", SQ, SP,
          MINUS, "o", SP, "count">>, 1293) >>)

D_Start ==
  Cell("dl:2c", <<
    SSh(<<"ariaDownload.py", SP, MINUS, MINUS, "track", SP, "4", SP, MINUS, MINUS, "bbox", SP,
          DQ, "3", "6", DOT, "7", "5", SP, "3", "7", DOT, "2", "2", "5", SP,
          MINUS, "7", "6", DOT, "6", "5", "5", SP,
          MINUS, "7", "5", DOT, "9", "2", "8", DQ, SP, MINUS, "o", SP, "count", SP, MINUS, MINUS, "start", SP, "20190101", SP>>,
        1334) >>)

D_StartEnd ==
  Cell("dl:2d", <<
    SSh(<<"ariaDownload.py", SP, MINUS, MINUS, "track", SP, "4", SP, MINUS, MINUS, "bbox", SP,
          DQ, "3", "6", DOT, "7", "5", SP, "3", "7", DOT, "2", "2", "5", SP,
          MINUS, "7", "6", DOT, "6", "5", "5", SP,
          MINUS, "7", "5", DOT, "9", "2", "8", DQ, SP, MINUS, "o", SP, "count", SP, MINUS, "s", SP, "20190101", SP, SP,
          MINUS, MINUS, "end", SP, "20190401", SP, MINUS, MINUS, "verbose">>, 1345) >>)

D_DaysLess ==
  Cell("dl:2e", <<
    SSh(<<"ariaDownload.py", SP, MINUS, MINUS, "track", SP, "4", SP, MINUS, MINUS, "bbox", SP,
          DQ, "3", "6", DOT, "7", "5", SP, "3", "7", DOT, "2", "2", "5", SP,
          MINUS, "7", "6", DOT, "6", "5", "5", SP,
          MINUS, "7", "5", DOT, "9", "2", "8", DQ, SP, MINUS, "o", SP, "count", SP, MINUS, MINUS, "daysless", SP, "1", "3", SP,
          MINUS, "v">>, 1386) >>)

D_DaysMore ==
  Cell("dl:2f", <<
    SSh(<<"ariaDownload.py", SP, MINUS, MINUS, "track", SP, "4", SP, MINUS, MINUS, "bbox", SP,
          DQ, "3", "6", DOT, "7", "5", SP, "3", "7", DOT, "2", "2", "5", SP,
          MINUS, "7", "6", DOT, "6", "5", "5", SP,
          MINUS, "7", "5", DOT, "9", "2", "8", DQ, SP, MINUS, "o", SP, "count", SP, MINUS, MINUS, "daysmore", SP, "3", "6", "4">>,
        1406) >>)

D_DaysBetween ==
  Cell("dl:2g", <<
    SSh(<<"ariaDownload.py", SP, MINUS, MINUS, "track", SP, "4", SP, SP, MINUS, MINUS, "bbox", SP,
          DQ, "3", "6", DOT, "7", "5", SP, "3", "7", DOT, "2", "2", "5", SP,
          MINUS, "7", "6", DOT, "6", "5", "5", SP,
          MINUS, "7", "5", DOT, "9", "2", "8", DQ, SP, SP, MINUS, "o", SP, "count", SP, MINUS, "m", SP, "5", "9", SP,
          MINUS, "l", SP, "1", "8", "1", SP, MINUS, "v", SP>>, 1426) >>)

D_Ifg ==
  Cell("dl:2h", <<
    SSh(<<"ariaDownload.py", SP, MINUS, "b", SP,
          DQ, "3", "6", DOT, "7", "5", SP, "3", "7", DOT, "2", "2", "5", SP,
          MINUS, "7", "6", DOT, "6", "5", "5", SP,
          MINUS, "7", "5", DOT, "9", "2", "8", DQ, SP, SP, MINUS, "o", SP, "count", SP, MINUS, MINUS, "ifg", SP,
          DQ, "20161018_20160702", DQ, SP, MINUS, "v", SP>>, 1456) >>)

DlSections == <<
  Section("Overview", FALSE, <<D_Usage>>),
  Section("1", FALSE, <<D_Count, D_Url, D_HeadUrl, D_Kmz>>),
  Section("2", FALSE, <<D_Bbox, D_Shape, D_Start, D_StartEnd, D_DaysLess,
                        D_DaysMore, D_DaysBetween, D_Ifg>>) >>

\* the sections of the notebook the session runs
Secs ==
  CASE nb = "gdal" -> GdalSections
    [] nb = "plot" -> PlotSections
    [] nb = "dl" -> DlSections

----------------------------------------------------------------------------
(* Numerals *)

IsDigit(c) == \E i \in 1..10 : Digits[i] = c

DigitVal(c) == CHOOSE i \in 0..9 : Digits[i + 1] = c

RECURSIVE IntOf(_, _)
IntOf(s, acc) ==
  IF s = <<>> THEN acc ELSE IntOf(Tail(s), 10 * acc + DigitVal(Head(s)))

\* a word that reads as a decimal number: [-]digits[.digits]
IsNumeral(w) ==
  LET body == IF w # <<>> /\ Head(w) = MINUS THEN Tail(w) ELSE w IN
    /\ body # <<>>
    /\ IsDigit(Head(body))
    /\ \A i \in 1..Len(body) : IsDigit(body[i]) \/ body[i] = DOT
    /\ Len(SplitOn(body, DOT)) <= 2

\* the magnitude, in thousandths, of the numeral whose integer and fraction
\* digits are parts[1] and parts[2]
Thousandths(parts) ==
  LET frac == IF Len(parts) > 1 THEN parts[2] ELSE <<>> IN
    1000 * IntOf(parts[1], 0) + IntOf(SubSeq(frac \o <<"0", "0", "0">>, 1, 3), 0)

\* a numeral read without its sign
ParseDecimalUnsigned(w) ==
  IF Head(w) = MINUS THEN Thousandths(SplitOn(Tail(w), DOT))
  ELSE Thousandths(SplitOn(w, DOT))

\* the value of a numeral, in thousandths
ParseDecimal(w) ==
  IF Head(w) = MINUS THEN 0 - Thousandths(SplitOn(Tail(w), DOT))
  ELSE Thousandths(SplitOn(w, DOT))

----------------------------------------------------------------------------
(* The command lines of the external programs *)

\* a word that a program reads as an option: -x or --xyz, not a negative number
IsOption(w) == Len(w) >= 2 /\ Head(w) = MINUS /\ ~IsDigit(w[2])

RECURSIVE StripDashes(_)
StripDashes(w) ==
  IF w # <<>> /\ Head(w) = MINUS THEN StripDashes(Tail(w)) ELSE w

NoArgs == [opts |-> <<>>, pos |-> <<>>]

\* argparse: the options (those named in valued take the next word as their
\* value) and the positional words of a command line
RECURSIVE ArgScan(_, _, _)
ArgScan(ws, valued, acc) ==
  IF ws = <<>> THEN acc
  ELSE LET w == Head(ws) r == Tail(ws) IN
       IF IsOption(w) THEN
         IF StripDashes(w) \in valued /\ r # <<>> THEN
           ArgScan(Tail(r), valued,
                   [acc EXCEPT !.opts = Append(@, [name |-> StripDashes(w),
                                                   dashes |-> Len(w) - Len(StripDashes(w)),
                                                   val |-> Head(r)])])
         ELSE
           ArgScan(r, valued,
                   [acc EXCEPT !.opts = Append(@, [name |-> StripDashes(w),
                                                   dashes |-> Len(w) - Len(StripDashes(w)),
                                                   val |-> <<>>])])
       ELSE ArgScan(r, valued, [acc EXCEPT !.pos = Append(@, w)])

HasOpt(args, names) == \E i \in 1..Len(args.opts) : args.opts[i].name \in names

\* the value of the last option among names, dflt when none is given
OptVal(args, names, dflt) ==
  LET hits == {i \in 1..Len(args.opts) : args.opts[i].name \in names} IN
    IF hits = {} THEN dflt
    ELSE args.opts[CHOOSE i \in hits : \A j \in hits : j <= i].val

\* the leading words of ws that are numerals, at most n of them, removed
RECURSIVE DropNumerals(_, _)
DropNumerals(ws, n) ==
  IF n = 0 \/ ws = <<>> \/ ~IsNumeral(Head(ws)) THEN ws
  ELSE DropNumerals(Tail(ws), n - 1)

TrNone ==
  [of |-> <<>>, scale |-> FALSE, co |-> {}, projwin |-> <<>>, pos |-> <<>>]

\* the options of gdal_translate / gdal.TranslateOptions
RECURSIVE TrScan(_, _)
TrScan(ws, acc) ==
  IF ws = <<>> THEN acc
  ELSE LET w == Head(ws) r == Tail(ws) IN
       IF w = <<MINUS, "of">> /\ r # <<>> THEN
         TrScan(Tail(r), [acc EXCEPT !.of = Head(r)])
       ELSE IF w = <<MINUS, "scale">> THEN
         TrScan(DropNumerals(r, 4), [acc EXCEPT !.scale = TRUE])
       ELSE IF w = <<MINUS, "co">> /\ r # <<>> THEN
         TrScan(Tail(r), [acc EXCEPT !.co = @ \cup {Head(r)}])
       ELSE IF w = <<MINUS, "projwin">> /\ Len(r) >= 4 THEN
         TrScan(SubSeq(r, 5, Len(r)),
                [acc EXCEPT !.projwin = [i \in 1..4 |-> ParseDecimal(r[i])]])
       ELSE TrScan(r, [acc EXCEPT !.pos = Append(@, w)])

\* the dataset a GDAL name denotes for a process in directory d:
\* <<file, sub-dataset>>; NETCDF:file:variable names a variable of a netCDF
\* file, and the file may be quoted
SubName(pieces, d) ==
  << AbsPath(d, SelectSeq(pieces[1], LAMBDA c : c # DQ)),
     JoinWith(Tail(pieces), COLON) >>

OpenName(name, d) ==
  IF Len(name) >= 2 /\ name[1] = "NETCDF" /\ name[2] = COLON
  THEN SubName(SplitOn(SubSeq(name, 3, Len(name)), COLON), d)
  ELSE << AbsPath(d, name), <<>> >>

\* one raster translation: what is read, how it is converted, what is written
TrOp(opts, src, dst) ==
  [of |-> opts.of, scale |-> opts.scale, co |-> opts.co,
   projwin |-> opts.projwin, src |-> src, dst |-> dst]

\* the translation gdal_translate performs for the words after its name
CliOp(t, d) == TrOp(t, OpenName(t.pos[1], d), AbsPath(d, t.pos[2]))

CliTranslate(ws, d) == CliOp(TrScan(ws, TrNone), d)

----------------------------------------------------------------------------
(* What the external programs read and write *)

NoEffect == [reads |-> {}, writes |-> {}, dirs |-> {}]

\* the files a -f argument names: a pattern dir/*.ext, or one path
InDir(dir, ext, files) ==
  {f.path : f \in {g \in files : /\ ~g.dir
                                 /\ DirName(g.path) = dir
                                 /\ Last(g.path) = ext}}

Glob(pattern, d, files) ==
  IF \E i \in 1..Len(pattern) : pattern[i] = "*"
  THEN InDir(AbsPath(d, DirName(pattern)), Last(pattern), files)
  ELSE {AbsPath(d, pattern)}

\* the options of ariaDownload.py that take a value
DownloadValued ==
  {<<"t">>, <<"track">>, <<"b">>, <<"bbox">>, <<"i">>, <<"ifg">>, <<"s">>,
   <<"start">>, <<"e">>, <<"end">>, <<"l">>, <<"daysless">>, <<"m">>,
   <<"daysmore">>, <<"o">>, <<"output">>, <<"w">>, <<"workdir">>}

\* the products the tutorials say a search returns
Catalog(args) ==
  LET track == OptVal(args, {<<"t">>, <<"track">>}, <<>>) IN
  IF OptVal(args, {<<"i">>, <<"ifg">>}, <<>>) = <<"20190222_20190210">> THEN
    { <<"S1-GUNW-A-R-077-tops-20190222_20190210-231605-42666N_40796N-PP-d75b-v2_0_1", ".nc">> }
  ELSE IF track # <<>> /\ IsNumeral(track) /\ IntOf(track, 0) = 42 THEN
    { <<"S1-GUNW-D-R-042-tops-20150605_20150512-140722-39616N_37642N-PP-e396-v2_0_0", ".nc">>,
      <<"S1-GUNW-D-R-042-tops-20150629_20150512-140723-39615N_37641N-PP-0e95-v2_0_0", ".nc">> }
  ELSE {}

\* what a search with the parsed options args writes into work directory wd
DownloadOutput(args, out, wd) ==
  IF out = <<"download">> THEN
    [reads |-> {}, dirs |-> {wd},
     writes |-> {PathJoin(wd, f) : f \in Catalog(args)}]
  ELSE IF out = <<"url">> THEN
    [reads |-> {}, dirs |-> {wd},
     writes |-> {PathJoin(wd, <<"download_products_4track_0", ".txt">>)}]
  ELSE [reads |-> {}, dirs |-> {wd}, writes |-> {}]

DownloadArgs(args, d) ==
  IF args.pos = <<>> /\ args.opts = <<>> THEN NoEffect
  ELSE IF HasOpt(args, {<<"h">>, <<"help">>}) THEN NoEffect
  ELSE DownloadOutput(args,
                      OptVal(args, {<<"o">>, <<"output">>}, <<"download">>),
                      AbsPath(d, OptVal(args, {<<"w">>, <<"workdir">>},
                                        <<DOT, SLASH, "products">>)))

DownloadEffect(ws, d) == DownloadArgs(ArgScan(ws, DownloadValued, NoArgs), d)

\* the options of ariaPlot.py that take a value
PlotValued ==
  {<<"f">>, <<"file">>, <<"b">>, <<"bbox">>, <<"w">>, <<"workdir">>, <<"o">>}

\* the file each plotting option of ariaPlot.py writes into the figures
\* directory
PlotOutputs ==
  { <<<<"plotcoh">>, <<"avgcoherence_plot", ".eps">>>>,
    <<<<"plotbperpcoh">>, <<"bperp_coh_plot", ".eps">>>>,
    <<<<"makeavgoh">>, <<"avgcoherence", ".vrt">>>>,
    <<<<"plottracks">>, <<"lat_extents", ".eps">>>> }

PlotMade(reads, fig, names) ==
  [reads |-> reads,
   dirs |-> IF names = {} THEN {} ELSE {fig},
   writes |-> {PathJoin(fig, n) : n \in names}]

PlotArgs(args, d, files) ==
  IF HasOpt(args, {<<"h">>, <<"help">>}) \/ ~HasOpt(args, {<<"f">>, <<"file">>})
  THEN NoEffect
  ELSE PlotMade(Glob(OptVal(args, {<<"f">>, <<"file">>}, <<>>), d, files),
                PathJoin(AbsPath(d, OptVal(args, {<<"w">>, <<"workdir">>}, <<DOT>>)),
                         <<"figures">>),
                {o[2] : o \in {q \in PlotOutputs : HasOpt(args, {q[1]})}})

PlotEffect(ws, d, files) == PlotArgs(ArgScan(ws, PlotValued, NoArgs), d, files)

\* what the command line ws, run in directory d, reads and writes
TrEffect(t) == [reads |-> {t.src[1]}, dirs |-> {}, writes |-> {t.dst}]

\* a program that only reads the files its positional words name
ReadEffect(args, d) ==
  [reads |-> {OpenName(w, d)[1] : w \in Range(args.pos)},
   dirs |-> {}, writes |-> {}]

ProgEffect(ws, d, files) ==
  CASE Head(ws) = <<"ariaDownload.py">> -> DownloadEffect(Tail(ws), d)
    [] Head(ws) = <<"ariaPlot.py">> -> PlotEffect(Tail(ws), d, files)
    [] Head(ws) = <<"gdal_translate">> -> TrEffect(CliTranslate(Tail(ws), d))
    [] Head(ws) \in {<<"gdalinfo">>, <<"ls">>} ->
         ReadEffect(ArgScan(Tail(ws), {}, NoArgs), d)
    [] Head(ws) = <<"head">> -> ReadEffect(ArgScan(Tail(ws), {<<"n">>}, NoArgs), d)
    [] OTHER -> NoEffect

\* a shell that does not wait for any command
BackgroundAlways(ws) == TRUE

\* the shell runs a command in the background when the line ends with &
Background(ws) == ws # <<>> /\ Last(ws) = <<"&">>

----------------------------------------------------------------------------
(* The disk *)

Exists(files, p) == \E f \in files : f.path = p

\* files with the paths in writes written, and the directories in dirs made
\* where they do not exist, by cell c
Written(files, writes, dirs, c) ==
  {f \in files : f.path \notin writes}
    \cup {[path |-> p, writer |-> c, dir |-> FALSE] : p \in writes}
    \cup {[path |-> p, writer |-> c, dir |-> TRUE] :
            p \in {q \in dirs : ~Exists(files, q) /\ q \notin writes}}

\* the uses, by cell c, of disk state that another cell wrote: a file it
\* reads, a file it overwrites, a directory it writes into
Deps(files, reads, writes, dirs, c) ==
  {[path |-> f.path, writer |-> f.writer, user |-> c, how |-> "read"] :
     f \in {g \in files : g.path \in reads /\ g.writer \notin {c, "init"}}}
    \cup
  {[path |-> f.path, writer |-> f.writer, user |-> c, how |-> "overwrite"] :
     f \in {g \in files : g.path \in writes /\ ~g.dir
                          /\ g.writer \notin {c, "init"}}}
    \cup
  {[path |-> f.path, writer |-> f.writer, user |-> c, how |-> "into"] :
     f \in {g \in files : g.path \in dirs /\ g.dir
                          /\ g.writer \notin {c, "init"}}}

----------------------------------------------------------------------------
(* The notebook session *)

\* the directories a session may be started in
HomeDirs ==
  { <<SLASH>>,
    <<SLASH, "work">>,
    <<SLASH, "home", SLASH, "user", SLASH, "JupyterDocs">> }

CurCell == Secs[cur].cells[ci]

Stmt == CurCell.stmts[si]

\* the kernel is about to execute a statement of kind op
At(op) ==
  /\ kernel = "busy"
  /\ cur # 0
  /\ si <= Len(CurCell.stmts)
  /\ Stmt.op = op

Now ==
  [kernel |-> kernel, cur |-> cur, ci |-> ci, si |-> si, order |-> order,
   ns |-> ns, cwd |-> cwd, fs |-> fs, procs |-> procs, faults |-> faults,
   failed |-> failed, trlog |-> trlog, extdeps |-> extdeps, aborted |-> aborted,
   pl |-> pl]

Apply(r) ==
  /\ kernel' = r.kernel
  /\ cur' = r.cur
  /\ ci' = r.ci
  /\ si' = r.si
  /\ order' = r.order
  /\ ns' = r.ns
  /\ cwd' = r.cwd
  /\ fs' = r.fs
  /\ procs' = r.procs
  /\ faults' = r.faults
  /\ trlog' = r.trlog
  /\ extdeps' = r.extdeps
  /\ aborted' = r.aborted
  /\ failed' = r.failed
  /\ pl' = r.pl
  /\ nb' = nb
  /\ loc' = loc

\* an exception leaves the cell: the rest of the cell is not executed
Raise(kind) ==
  [Now EXCEPT !.faults = @ \cup {[cell |-> CurCell.id, line |-> Stmt.line,
                                    kind |-> kind]},
              !.aborted = TRUE, !.kernel = "idle"]

\* the exception Python raises before statement s does anything: a name that
\* is not bound, or a dataset method called on a value that is no dataset
PyFault(s) ==
  IF ~(s.uses \subseteq DOMAIN ns) THEN "NameError"
  ELSE IF \E h \in s.handles : ns[h].tag # "ds" THEN "AttributeError"
  ELSE "none"

Bind(names, val) ==
  [n \in (DOMAIN ns) \cup names |-> IF n \in names THEN val ELSE ns[n]]

\* gdal.UseExceptions() has been called in this session
GdalRaises == "gdal" \in DOMAIN ns /\ ns["gdal"].v = <<"UseExceptions">>

\* no call of plot_layer is running
NoCall ==
  [pc |-> "idle", lay_type |-> <<>>, title |-> <<>>, ds |-> "unset",
   n_bands |-> 0, lst_arrs |-> <<>>, axe |-> 0, i |-> 0]

KInit ==
  /\ nb \in {"gdal", "plot", "dl"}
  /\ kernel = "idle"
  /\ cur = 0
  /\ ci = 0
  /\ si = 0
  /\ order = <<>>
  /\ ns = [n \in {} |-> NoneVal]
  /\ cwd \in HomeDirs
  /\ fs = {[path |-> cwd, writer |-> "init", dir |-> TRUE]}
  /\ procs = {}
  /\ faults = {}
  /\ trlog = {}
  /\ extdeps = {}
  /\ aborted = FALSE
  /\ failed = {}
  /\ pl = NoCall
  /\ loc = [pc |-> "none"]

\* a prep section is run once the prep sections before it have been run, any
\* other section once all prep sections have been run
CanStart(s) ==
  /\ s \notin Range(order)
  /\ \A j \in 1..Len(Secs) :
       (Secs[j].prep /\ (j < s \/ ~Secs[s].prep)) => j \in Range(order)

StartSection ==
  /\ kernel = "idle"
  /\ cur = 0
  /\ ~aborted
  /\ \E s \in 1..Len(Secs) :
       /\ CanStart(s)
       /\ Apply([Now EXCEPT !.cur = s, !.ci = 1, !.si = 0])

StartCell ==
  /\ kernel = "idle"
  /\ cur # 0
  /\ ~aborted
  /\ Apply([Now EXCEPT !.kernel = "busy", !.si = 1])

EndCell ==
  /\ kernel = "busy"
  /\ cur # 0
  /\ si > Len(CurCell.stmts)
  /\ IF ci < Len(Secs[cur].cells)
     THEN Apply([Now EXCEPT !.kernel = "idle", !.ci = ci + 1, !.si = 0])
     ELSE Apply([Now EXCEPT !.kernel = "idle", !.ci = 0, !.si = 0, !.cur = 0,
                            !.order = Append(order, cur)])

ExecImport ==
  /\ At("import")
  /\ Apply([Now EXCEPT !.ns = Bind(Stmt.tgts, Val("mod", <<>>)), !.si = si + 1])

ExecDef ==
  /\ At("def")
  /\ Apply([Now EXCEPT !.ns = Bind(Stmt.tgts, Val("fn", Stmt.body)),
                       !.si = si + 1])

ExecAssign ==
  /\ At("assign")
  /\ IF PyFault(Stmt) # "none" THEN Apply(Raise(PyFault(Stmt)))
     ELSE Apply([Now EXCEPT
                   !.ns = Bind(Stmt.tgts, Val("str", Eval(Stmt.e, ns, cwd))),
                   !.si = si + 1])

ExecCall ==
  /\ At("call")
  /\ IF PyFault(Stmt) # "none" THEN Apply(Raise(PyFault(Stmt)))
     ELSE Apply([Now EXCEPT !.ns = Bind(Stmt.tgts, Val("obj", <<>>)), !.si = si + 1])

ExecUseExceptions ==
  /\ At("useexc")
  /\ IF PyFault(Stmt) # "none" THEN Apply(Raise(PyFault(Stmt)))
     ELSE Apply([Now EXCEPT !.ns = Bind({"gdal"}, Val("mod", <<"UseExceptions">>)),
                            !.si = si + 1])

\* tgt = gdal.Open(name): a missing file raises when exceptions are enabled,
\* and gives None when they are not
ExecOpen ==
  /\ At("open")
  /\ IF PyFault(Stmt) # "none" THEN Apply(Raise(PyFault(Stmt)))
     ELSE LET id == OpenName(Eval(Stmt.e, ns, cwd), cwd) IN
       IF ~Exists(fs, id[1]) THEN
         IF GdalRaises THEN Apply(Raise("RuntimeError"))
         ELSE Apply([Now EXCEPT !.ns = Bind(Stmt.tgts, NoneVal), !.si = si + 1])
       ELSE Apply([Now EXCEPT
                     !.ns = Bind(Stmt.tgts, Val("ds", id)),
                     !.extdeps = @ \cup Deps(fs, {id[1]}, {}, {}, CurCell.id),
                     !.si = si + 1])

\* tgt = None
ExecClose ==
  /\ At("close")
  /\ Apply([Now EXCEPT !.ns = Bind(Stmt.tgts, NoneVal), !.si = si + 1])

\* if not os.path.exists(p): os.makedirs(p)
ExecMakedirs ==
  /\ At("makedirs")
  /\ IF PyFault(Stmt) # "none" THEN Apply(Raise(PyFault(Stmt)))
     ELSE LET p == Eval(Stmt.e, ns, cwd) IN
       Apply([Now EXCEPT !.fs = Written(fs, {}, {p}, CurCell.id), !.si = si + 1])

ExecChdir ==
  /\ At("chdir")
  /\ IF PyFault(Stmt) # "none" THEN Apply(Raise(PyFault(Stmt)))
     ELSE LET p == Eval(Stmt.e, ns, cwd) IN
       IF ~Exists(fs, AbsPath(cwd, p)) THEN Apply(Raise("FileNotFoundError"))
       ELSE Apply([Now EXCEPT !.cwd = AbsPath(cwd, p), !.si = si + 1])

\* tgt = gdal.TranslateOptions(gdal.ParseCommandLine(text))
ExecOptions ==
  /\ At("options")
  /\ IF PyFault(Stmt) # "none" THEN Apply(Raise(PyFault(Stmt)))
     ELSE Apply([Now EXCEPT
                   !.ns = Bind(Stmt.tgts, Val("opts", ParseCommandLine(Stmt.text))),
                   !.si = si + 1])

\* the session after gdal.Translate has performed the translation op
Translated(op) ==
  [Now EXCEPT
     !.ns = Bind(Stmt.tgts, Val("out", <<>>)),
     !.fs = Written(fs, {op.dst}, {}, CurCell.id),
     !.extdeps = @ \cup Deps(fs, {}, {op.dst}, {}, CurCell.id),
     !.trlog = @ \cup {[cell |-> CurCell.id, by |-> "py", op |-> op]},
     !.si = si + 1]

\* tgt = gdal.Translate(dst, src, options=opts)
ExecTranslate ==
  /\ At("translate")
  /\ IF PyFault(Stmt) # "none" THEN Apply(Raise(PyFault(Stmt)))
     ELSE Apply(Translated(TrOp(TrScan(ns[Stmt.opts].v, TrNone), ns[Stmt.src].v,
                                AbsPath(cwd, Stmt.dst))))

\* the largest number of bands of a raster that plot_layer is given
MaxBands == 4

\* an exception leaves plot_layer at line l of the notebook: the call and the
\* rest of the cell are abandoned
PlRaise(kind, l) ==
  [Now EXCEPT !.faults = @ \cup {[cell |-> CurCell.id, line |-> l, kind |-> kind]},
              !.aborted = TRUE, !.kernel = "idle", !.pl = NoCall]

\* the library call at line l of plot_layer fails
PlFailed(call, l) == failed \cup {[cell |-> CurCell.id, line |-> l, call |-> call]}

InCall(pc) == kernel = "busy" /\ pl.pc = pc

\* plot_layer(path_layer, lay_type) is called: the names of its body are looked
\* up, lay_type is set and title is its basename
ExecPlotLayer ==
  /\ At("plot_layer")
  /\ pl.pc = "idle"
  /\ IF PyFault(Stmt) # "none" THEN Apply(Raise(PyFault(Stmt)))
     ELSE IF ~(ns["plot_layer"].v \subseteq DOMAIN ns) THEN Apply(Raise("NameError"))
     ELSE Apply([Now EXCEPT
                   !.pl = [NoCall EXCEPT
                             !.pc = "open",
                             !.lay_type = IF Stmt.laytype = <<>>
                                          THEN DirName(Stmt.path)
                                          ELSE Stmt.laytype,
                             !.title = IF Stmt.laytype = <<>>
                                       THEN <<Last(SplitOn(DirName(Stmt.path), SLASH))>>
                                       ELSE <<Last(SplitOn(Stmt.laytype, SLASH))>>]])

\* ds = gdal.Open(path_layer): the raster has some number of bands; when the
\* file cannot be opened, gdal.Open raises if exceptions are enabled and gives
\* None if they are not
PlOpen ==
  /\ InCall("open")
  /\ \E ok \in BOOLEAN : \E n \in 0..MaxBands :
       IF ok /\ Exists(fs, OpenName(Stmt.path, cwd)[1]) THEN
         Apply([Now EXCEPT
                  !.pl = [pl EXCEPT !.pc = "trans", !.ds = "ds", !.n_bands = n],
                  !.extdeps = @ \cup Deps(fs, {OpenName(Stmt.path, cwd)[1]}, {}, {},
                                          CurCell.id)])
       ELSE /\ n = 0
            /\ IF GdalRaises
               THEN Apply([PlRaise("RuntimeError", 82) EXCEPT
                             !.failed = PlFailed("gdal.Open", 82)])
               ELSE Apply([Now EXCEPT
                             !.pl = [pl EXCEPT !.pc = "trans", !.ds = "None"],
                             !.failed = PlFailed("gdal.Open", 82)])

\* trans = ds.GetGeoTransform(); extent; n_bands = ds.RasterCount; lst_arrs = []
PlTrans ==
  /\ InCall("trans")
  /\ IF pl.ds # "ds" THEN Apply(PlRaise("AttributeError", 83))
     ELSE Apply([Now EXCEPT !.pl = [pl EXCEPT !.pc = "band"]])

\* the band is read inside the try block: a failed read goes to the except
\* clause
PlReadBandCaught ==
  /\ InCall("band")
  /\ Len(pl.lst_arrs) < pl.n_bands
  /\ \/ Apply([Now EXCEPT !.pl = [pl EXCEPT !.pc = "try"]])
     \/ Apply([Now EXCEPT !.pl = [pl EXCEPT !.pc = "except"],
                          !.failed = PlFailed("ReadAsArray", 92)])

\* for band in range(n_bands): raster = ds.GetRasterBand(band+1);
\* arr = raster.ReadAsArray()
PlReadBand ==
  /\ InCall("band")
  /\ Len(pl.lst_arrs) < pl.n_bands
  /\ \/ Apply([Now EXCEPT !.pl = [pl EXCEPT !.pc = "try"]])
     \/ Apply([PlRaise("LibraryError", 92) EXCEPT
                 !.failed = PlFailed("ReadAsArray", 92)])

\* try: NoData = raster.GetNoDataValue(); arr = masked_where(...) -- a failure
\* of either goes to the except clause
PlTry ==
  /\ InCall("try")
  /\ \/ Apply([Now EXCEPT !.pl = [pl EXCEPT !.pc = "band",
                                          !.lst_arrs = Append(@, "nodata")]])
     \/ Apply([Now EXCEPT !.pl = [pl EXCEPT !.pc = "except"],
                          !.failed = PlFailed("GetNoDataValue", 94)])

\* except: print(...); arr = np.ma.masked_where(arr>1e20, arr); the array is
\* appended without the no-data mask
PlExcept ==
  /\ InCall("except")
  /\ \/ Apply([Now EXCEPT !.pl = [pl EXCEPT !.pc = "band",
                                          !.lst_arrs = Append(@, "big")]])
     \/ Apply([PlRaise("LibraryError", 98) EXCEPT
                 !.failed = PlFailed("masked_where", 98)])

\* ds = None, once every band has been read
PlClose ==
  /\ InCall("band")
  /\ Len(pl.lst_arrs) = pl.n_bands
  /\ Apply([Now EXCEPT !.pl = [pl EXCEPT !.pc = "layout", !.ds = "None"]])

\* a layout that takes rasters of up to four bands
PlLayoutFour ==
  /\ InCall("layout")
  /\ IF pl.n_bands < 5
     THEN Apply([Now EXCEPT !.pl = [pl EXCEPT !.pc = "subplots"]])
     ELSE Apply(PlRaise("Exception", 106))

\* if n_bands < 4: nrows = 1; ncols = n_bands
\* else: raise Exception('Number of bands currently unsupported')
PlLayout ==
  /\ InCall("layout")
  /\ IF pl.n_bands < 4
     THEN Apply([Now EXCEPT !.pl = [pl EXCEPT !.pc = "subplots"]])
     ELSE Apply(PlRaise("Exception", 106))

\* fig, axes = plt.subplots(ncols=n_bands, nrows=1): no figure has zero
\* columns; axe = axes.ravel(); the titles of the ENU layer
PlSubplots ==
  /\ InCall("subplots")
  /\ IF pl.n_bands = 0
     THEN Apply([PlRaise("ValueError", 110) EXCEPT
                   !.failed = PlFailed("subplots", 110)])
     ELSE Apply([Now EXCEPT
                   !.pl = [pl EXCEPT !.pc = "panel", !.axe = pl.n_bands, !.i = 0,
                                     !.title = IF pl.lay_type = <<"ENU">>
                                               THEN <<"East", "North", "Up">>
                                               ELSE @]])

\* for i, ax in enumerate(axe): ax.imshow(lst_arrs[i]); ax.set_title(title[i])
PlPanel ==
  /\ InCall("panel")
  /\ pl.i < pl.axe
  /\ IF pl.i + 1 > Len(pl.title) THEN Apply(PlRaise("IndexError", 172))
     ELSE Apply([Now EXCEPT !.pl = [pl EXCEPT !.i = @ + 1]])

\* the axis labels are set and plot_layer returns
PlReturn ==
  /\ InCall("panel")
  /\ pl.i = pl.axe
  /\ Apply([Now EXCEPT !.pl = NoCall, !.si = si + 1])

\* a "!" line: the shell is started, and the kernel waits for it to end
ExecShell ==
  /\ At("sh")
  /\ LET ws == ShellSplit(Expand(Stmt.cmd, ns))
         p == [cell |-> CurCell.id, line |-> Stmt.line, words |-> ws, dir |-> cwd]
     IN IF Background(ws)
        THEN Apply([Now EXCEPT !.procs = @ \cup {p}, !.si = si + 1])
        ELSE Apply([Now EXCEPT !.procs = @ \cup {p}, !.kernel = "wait"])

\* an external process ends: what it wrote is on disk; a command that finds
\* a file missing reports it and ends, which raises nothing in the kernel
\* the session after process p has ended with effect eff; ok: every file it
\* reads exists; waited: the kernel was waiting for it
Exited(p, eff, ok, waited) ==
  [Now EXCEPT
     !.procs = @ \ {p},
     !.fs = IF ok THEN Written(fs, eff.writes, eff.dirs, p.cell) ELSE fs,
     !.extdeps = @ \cup Deps(fs, eff.reads, IF ok THEN eff.writes ELSE {},
                              IF ok THEN eff.dirs ELSE {}, p.cell),
     !.faults = IF ok THEN @
                ELSE @ \cup {[cell |-> p.cell, line |-> p.line,
                              kind |-> "CommandFailed"]},
     !.trlog = IF Head(p.words) = <<"gdal_translate">> /\ ok
               THEN @ \cup {[cell |-> p.cell, by |-> "cli",
                             op |-> CliTranslate(Tail(p.words), p.dir)]}
               ELSE @,
     !.kernel = IF waited THEN "busy" ELSE @,
     !.si = IF waited THEN si + 1 ELSE @]

ProcEnd(p, eff) ==
  Exited(p, eff, \A q \in eff.reads : Exists(fs, q),
         kernel = "wait" /\ p.cell = CurCell.id /\ p.line = Stmt.line)

ProcExit == \E p \in procs : Apply(ProcEnd(p, ProgEffect(p.words, p.dir, fs)))

\* a statement that calls into a library fails: its exception leaves the cell
LibFail ==
  /\ kernel = "busy"
  /\ cur # 0
  /\ si <= Len(CurCell.stmts)
  /\ Stmt.op \in {"call", "open", "translate", "makedirs", "chdir"}
  /\ PyFault(Stmt) = "none"
  /\ Apply([Raise("LibraryError") EXCEPT
             !.failed = @ \cup {[cell |-> CurCell.id, line |-> Stmt.line,
                                 call |-> Stmt.op]}])

KNext ==
  \/ StartSection
  \/ StartCell
  \/ EndCell
  \/ ExecImport
  \/ ExecDef
  \/ ExecAssign
  \/ ExecCall
  \/ ExecUseExceptions
  \/ ExecOpen
  \/ ExecClose
  \/ ExecMakedirs
  \/ ExecChdir
  \/ ExecOptions
  \/ ExecTranslate
  \/ ExecPlotLayer
  \/ PlOpen
  \/ PlTrans
  \/ PlReadBand
  \/ PlTry
  \/ PlExcept
  \/ PlClose
  \/ PlLayout
  \/ PlSubplots
  \/ PlPanel
  \/ PlReturn
  \/ ExecShell
  \/ ProcExit
  \/ LibFail

Spec == KInit /\ [][KNext]_vars

----------------------------------------------------------------------------
(* The arithmetic of two cells of GDAL_basics section 3, followed on small  *)
(* rasters.  The session itself stands still while a cell is computed.      *)

\* a session in which no cell is running
KStill ==
  /\ nb = "gdal"
  /\ kernel = "idle"
  /\ cur = 0
  /\ ci = 0
  /\ si = 0
  /\ order = <<>>
  /\ ns = [n \in {} |-> NoneVal]
  /\ cwd = <<SLASH>>
  /\ fs = {[path |-> cwd, writer |-> "init", dir |-> TRUE]}
  /\ procs = {}
  /\ faults = {}
  /\ failed = {}
  /\ trlog = {}
  /\ extdeps = {}
  /\ aborted = FALSE
  /\ pl = NoCall

\* the number of pixels of the rasters of the masking cell
MaxPix == 2

\* the largest unwrapped-phase value of a pixel
MaxPhase == 2

\* the largest connected-component number of a pixel
MaxComp == 1

\* a numpy array without a mask
NdArray(data) == [data |-> data, mask |-> [i \in DOMAIN data |-> FALSE]]

\* array == scalar, element by element
EqScalar(arr, v) == [i \in DOMAIN arr.data |-> arr.data[i] = v]

\* a masked_array that drops the mask x already has (keep_mask=False)
MaskedArrayReplace(x, mask) ==
  [data |-> x.data, mask |-> [i \in DOMAIN x.data |-> mask[i]]]

\* np.ma.masked_array(x, mask=mask): keep_mask is True by default, so the
\* mask x already has is combined with the given one
MaskedArray(x, mask) ==
  [data |-> x.data, mask |-> [i \in DOMAIN x.data |-> x.mask[i] \/ mask[i]]]

\* the rasters of the product: the unwrapped phase already loaded into
\* unwData, its no-data value, and the connected components in the file
MaskInit ==
  /\ KStill
  /\ \E u \in [1..MaxPix -> 0..MaxPhase] : \E c \in [1..MaxPix -> 0..MaxComp] :
       \E n \in 0..MaxPhase :
         loc = [pc |-> "ndv", unwData |-> NdArray(u), bandNoData |-> n,
                connComponents |-> NdArray(c)]

\* NDV = unwPhase.GetRasterBand(1).GetNoDataValue(); unwPhase = None
MaskGetNDV ==
  /\ loc.pc = "ndv"
  /\ loc' = [pc |-> "conn", unwData |-> loc.unwData, NDV |-> loc.bandNoData,
             connComponents |-> loc.connComponents]
  /\ UNCHANGED kvars

\* connComp = gdal.Open(...); connCompData = ...ReadAsArray(); connComp = None
MaskLoadConnComp ==
  /\ loc.pc = "conn"
  /\ loc' = [pc |-> "nodata", unwData |-> loc.unwData, NDV |-> loc.NDV,
             connCompData |-> loc.connComponents]
  /\ UNCHANGED kvars

\* unwDataMasked = np.ma.masked_array(unwData, mask=unwData==NDV, ...)
MaskNoData ==
  /\ loc.pc = "nodata"
  /\ loc' = [pc |-> "water", unwData |-> loc.unwData, NDV |-> loc.NDV,
             connCompData |-> loc.connCompData,
             unwDataMasked |-> MaskedArray(loc.unwData,
                                           EqScalar(loc.unwData, loc.NDV))]
  /\ UNCHANGED kvars

\* unwDataMasked = np.ma.masked_array(unwDataMasked, mask=connCompData==0, ...)
MaskConnComp ==
  /\ loc.pc = "water"
  /\ loc' = [loc EXCEPT !.pc = "masked",
                        !.unwDataMasked =
                           MaskedArray(@, EqScalar(loc.connCompData, 0))]
  /\ UNCHANGED kvars

MaskNext ==
  \/ MaskGetNDV
  \/ MaskLoadConnComp
  \/ MaskNoData
  \/ MaskConnComp

SpecMask == MaskInit /\ [][MaskNext]_vars

\* the largest raster size, in pixels, of the corner-coordinate cell
MaxSize == 2

\* the vector with the y sampling before the y skew
GetGeoTransformSwapped(ds) ==
  <<ds.ulx, ds.xres, ds.xskew, ds.uly, ds.yres, ds.yskew>>

\* ds.GetGeoTransform(): the vector as the cell unpacks it
GetGeoTransform(ds) == <<ds.ulx, ds.xres, ds.xskew, ds.uly, ds.yskew, ds.yres>>

\* the georeferencing of the raster: where its upper-left corner is, the size
\* of a pixel along x and y (the sampling), and the two skew terms
GeoInit ==
  /\ KStill
  /\ \E r \in [ulx : {-3, 0}, xres : {1, 2}, xskew : {0, 1}, uly : {0, 5},
               yskew : {0, 1}, yres : {-1, -2}, RasterXSize : 1..MaxSize,
               RasterYSize : 1..MaxSize] :
       loc = [pc |-> "unpack", unwPhase |-> r]

\* ulLon, Lonres, Lonskew, ulLat, Latskew, Latres = unwPhase.GetGeoTransform()
GeoUnpack ==
  /\ loc.pc = "unpack"
  /\ LET t == GetGeoTransform(loc.unwPhase) IN
       loc' = [pc |-> "lrLon", unwPhase |-> loc.unwPhase, ulLon |-> t[1],
               Lonres |-> t[2], Lonskew |-> t[3], ulLat |-> t[4],
               Latskew |-> t[5], Latres |-> t[6]]
  /\ UNCHANGED kvars

\* lrLon = ulLon + (unwPhase.RasterXSize * Lonres)
GeoLrLon ==
  /\ loc.pc = "lrLon"
  /\ loc' = [pc |-> "lrLat", unwPhase |-> loc.unwPhase, ulLon |-> loc.ulLon,
             Lonres |-> loc.Lonres, Lonskew |-> loc.Lonskew, ulLat |-> loc.ulLat,
             Latskew |-> loc.Latskew, Latres |-> loc.Latres,
             lrLon |-> loc.ulLon + (loc.unwPhase.RasterXSize * loc.Lonres)]
  /\ UNCHANGED kvars

\* lrLat = ulLat + (unwPhase.RasterYSize * Latres)
GeoLrLat ==
  /\ loc.pc = "lrLat"
  /\ loc' = [pc |-> "corners", unwPhase |-> loc.unwPhase, ulLon |-> loc.ulLon,
             Lonres |-> loc.Lonres, Lonskew |-> loc.Lonskew, ulLat |-> loc.ulLat,
             Latskew |-> loc.Latskew, Latres |-> loc.Latres, lrLon |-> loc.lrLon,
             lrLat |-> loc.ulLat + (loc.unwPhase.RasterYSize * loc.Latres)]
  /\ UNCHANGED kvars

GeoNext ==
  \/ GeoUnpack
  \/ GeoLrLon
  \/ GeoLrLat

SpecGeo == GeoInit /\ [][GeoNext]_vars

----------------------------------------------------------------------------
(* The temporal-baseline filter of a search, as the ariaDownload tutorial    *)
(* describes it, applied to the command lines of its cells.                  *)

\* the longest temporal baseline, in days, of a pair in the archive
MaxDays == 366

\* a filter that also keeps the pairs separated by exactly N days
TemporalFilterInclusive(args, days) ==
  /\ HasOpt(args, {<<"l">>, <<"daysless">>}) =>
       days <= IntOf(OptVal(args, {<<"l">>, <<"daysless">>}, <<>>), 0)
  /\ HasOpt(args, {<<"m">>, <<"daysmore">>}) =>
       days >= IntOf(OptVal(args, {<<"m">>, <<"daysmore">>}, <<>>), 0)

\* a pair whose acquisitions are days apart passes the filter of the options
\* args: --daysless N keeps baselines smaller than N, --daysmore N baselines
\* larger than N
TemporalFilter(args, days) ==
  /\ HasOpt(args, {<<"l">>, <<"daysless">>}) =>
       days < IntOf(OptVal(args, {<<"l">>, <<"daysless">>}, <<>>), 0)
  /\ HasOpt(args, {<<"m">>, <<"daysmore">>}) =>
       days > IntOf(OptVal(args, {<<"m">>, <<"daysmore">>}, <<>>), 0)

\* one of the search cells of section 2 is run on an archive holding a pair
\* with some temporal baseline
DaysInit ==
  /\ KStill
  /\ \E c \in {D_Bbox, D_DaysLess, D_DaysMore, D_DaysBetween} :
       \E b \in 0..MaxDays :
         loc = [pc |-> "shell", cell |-> c.id, cmd |-> c.stmts[1].cmd, days |-> b]

\* the shell splits the line into words
DaysShell ==
  /\ loc.pc = "shell"
  /\ loc' = [pc |-> "parse", cell |-> loc.cell, days |-> loc.days,
             words |-> ShellSplit(loc.cmd)]
  /\ UNCHANGED kvars

\* ariaDownload.py reads its options
DaysParse ==
  /\ loc.pc = "parse"
  /\ loc' = [pc |-> "filter", cell |-> loc.cell, days |-> loc.days,
             args |-> ArgScan(Tail(loc.words), DownloadValued, NoArgs)]
  /\ UNCHANGED kvars

\* the pair is kept or dropped
DaysFilter ==
  /\ loc.pc = "filter"
  /\ loc' = [pc |-> "found", cell |-> loc.cell, days |-> loc.days,
             args |-> loc.args, selected |-> TemporalFilter(loc.args, loc.days)]
  /\ UNCHANGED kvars

DaysNext ==
  \/ DaysShell
  \/ DaysParse
  \/ DaysFilter

SpecDays == DaysInit /\ [][DaysNext]_vars

----------------------------------------------------------------------------
(* Properties *)

\* the exceptions Python raises for a name that is not bound and for a
\* dataset method called on None
UseFaults == {"NameError", "AttributeError"}

\* C1: in GDAL_basics, with Prep A and Prep B run first and sections 1 to 4
\* run in any order, no cell reads a name that is not bound or calls a dataset
\* method on a handle that is None
C1_AnyOrderNoBadRead ==
  nb = "gdal" => \A f \in faults : f.kind \notin UseFaults

\* sections 1 to 4 have all been run, last to first, and nothing was raised
C1_Witness ==
  nb = "gdal" /\ order = <<1, 2, 6, 5, 4, 3>> /\ faults = {}

\* C2: in the ariaPlot notebook, whenever the cell with the plot_layer call is
\* about to run it, plot_layer is bound to the function and the raster
\* figures/avgcoherence.vrt is on disk, written by the cell that runs
\* ariaPlot.py with --makeavgoh
C2_PlotLayerAfterMakeAvg ==
  (nb = "plot" /\ At("plot_layer")) =>
    /\ "plot_layer" \in DOMAIN ns
    /\ ns["plot_layer"].tag = "fn"
    /\ \E f \in fs : /\ f.path = AbsPath(cwd, Stmt.path)
                     /\ ~f.dir
                     /\ f.writer = P_Qualitative.id
    /\ \E i \in 1..Len(P_Qualitative.stmts) :
         HasOpt(ArgScan(ShellSplit(P_Qualitative.stmts[i].cmd), PlotValued, NoArgs),
                {<<"makeavgoh">>})

\* the call is about to run in a session that ran the spatial coverage
\* section before the qualitative section
C2_Witness ==
  /\ nb = "plot"
  /\ At("plot_layer")
  /\ pl.pc = "idle"
  /\ \E i \in 1..Len(order) : Secs[order[i]].name = "Spatial"
  /\ Secs[cur].name = "Qualitative"

\* the sections run so far are the first sections of the document, in order
DocOrder ==
  /\ order = [i \in 1..Len(order) |-> i]
  /\ cur \in {0, Len(order) + 1}

\* the names bound to an open dataset
Handles == {n \in DOMAIN ns : ns[n].tag = "ds"}

\* C3: with the cells of GDAL_basics run in document order, no dataset method
\* is called on a handle that is None, and between sections no name is bound
\* to an open dataset: every handle a section opened was set to None in it
C3_HandleLifecycle ==
  (nb = "gdal" /\ DocOrder) =>
    /\ \A f \in faults : f.kind # "AttributeError"
    /\ cur = 0 => Handles = {}

\* the whole notebook has been run in document order and the three handle
\* names have been opened and are None again
C3_Witness ==
  /\ nb = "gdal"
  /\ order = <<1, 2, 3, 4, 5, 6>>
  /\ faults = {}
  /\ \A h \in {"ds", "unwPhase", "connComp"} : h \in DOMAIN ns /\ ns[h].tag = "None"

\* the lines of the try block of plot_layer
TryLines == {94, 95}

\* the failure f was caught by the except clause of plot_layer
Caught(f) == f.cell = P_PlotAvgCoh.id /\ f.line \in TryLines

\* the failure f reached the user and ended the cell
Reached(f) == aborted /\ \E g \in faults : g.cell = f.cell /\ g.line = f.line

\* a failed gdal.Open in plot_layer gave None, which the next line trips over
OpenNone(f) ==
  /\ f.call = "gdal.Open"
  /\ \/ pl.pc = "trans" /\ pl.ds = "None"
     \/ aborted /\ \E g \in faults : /\ g.cell = f.cell
                                     /\ g.line = f.line + 1
                                     /\ g.kind = "AttributeError"

\* C4 (amended): a library call that fails ends the cell with an exception,
\* except in plot_layer, where a failure in the try block is caught and the
\* band is plotted with the fallback mask, and where a failed gdal.Open gives
\* None and ends the cell with an AttributeError one line later
C4_OnlyTryBlockCaught ==
  /\ \A f \in failed : Caught(f) \/ OpenNone(f) \/ Reached(f)
  /\ pl.pc = "except" => \E f \in failed : Caught(f)
  /\ \A i \in 1..Len(pl.lst_arrs) :
       pl.lst_arrs[i] = "big" => \E f \in failed : Caught(f)

\* the whole ariaPlot notebook has been run although a call in the try block
\* of plot_layer failed
C4_Witness ==
  /\ nb = "plot"
  /\ Len(order) = Len(Secs)
  /\ ~aborted
  /\ \E f \in failed : Caught(f)

\* C4 as stated: once the cell has ended, every library call that failed in
\* it has ended it, with the exception the library raised
C4_Original ==
  kernel = "idle" =>
    \A f \in failed :
      /\ aborted
      /\ \E g \in faults :
           g.cell = f.cell /\ g.line = f.line /\ g.kind \notin UseFaults

\* C5: only the statement the kernel waits at has a process running, and it
\* has one: no process runs while a statement executes or between cells
C5_NoOverlap ==
  /\ kernel \in {"idle", "busy"} => procs = {}
  /\ Cardinality(procs) <= 1
  /\ kernel \in {"busy", "wait"} => cur # 0 /\ ci \in 1..Len(Secs[cur].cells)
  /\ kernel = "wait" =>
       \A p \in procs : p.cell = CurCell.id /\ p.line = Stmt.line

\* the kernel waits for ariaPlot.py
C5_Witness ==
  /\ kernel = "wait"
  /\ \E p \in procs : Head(p.words) = <<"ariaPlot.py">>

\* the directory the session was started in
Home == (CHOOSE f \in fs : f.writer = "init").path

\* path p is the directory name of the home directory, or a file in it
Under(p, name) ==
  \/ p = PathJoin(Home, <<name>>)
  \/ DirName(p) = PathJoin(Home, <<name>>)

\* the exports that section 4.2 writes over those of section 4.1
Overwrites ==
  { <<G_41_Full.id, G_42_Full.id, <<"unwrappedPhase", ".kmz">>>>,
    <<G_41_Crop.id, G_42_Crop.id, <<"unwrappedPhaseCrop", ".kmz">>>> }

\* C6 (amended): the working directory never changes, and the disk state one
\* cell leaves for another is the products directory and the files in it, the
\* figures directory and the files in it, and the two exports of section 4.1
\* that section 4.2 writes again
C6_SharedDisk ==
  /\ cwd = Home
  /\ \A d \in extdeps :
       \/ d.how \in {"read", "into"} /\ Under(d.path, "products")
       \/ d.how \in {"read", "into"} /\ Under(d.path, "figures")
       \/ /\ d.how = "overwrite"
          /\ \E o \in Overwrites :
               d.writer = o[1] /\ d.user = o[2] /\ d.path = PathJoin(Home, o[3])

\* a cell has read a downloaded product and section 4.2 has written over an
\* export of section 4.1
C6_Witness ==
  /\ \E d \in extdeps : d.how = "read" /\ d.writer = G_Download.id
  /\ \E d \in extdeps : d.how = "overwrite" /\ d.user = G_42_Full.id

\* C6 as stated: no cell uses disk state that another cell left
C6_Original == extdeps = {}

\* C7: after the masking cell, a pixel of unwDataMasked is masked exactly when
\* its phase equals the no-data value or its connected component is 0
C7_MaskIsUnion ==
  loc.pc = "masked" =>
    \A i \in 1..MaxPix :
      loc.unwDataMasked.mask[i] <=>
        (loc.unwData.data[i] = loc.NDV \/ loc.connCompData.data[i] = 0)

\* a pixel masked only for its no-data value next to a pixel masked only for
\* its connected component
C7_Witness ==
  /\ loc.pc = "masked"
  /\ \E i \in 1..MaxPix : /\ loc.unwData.data[i] = loc.NDV
                       /\ loc.connCompData.data[i] # 0
                       /\ loc.unwDataMasked.mask[i]
  /\ \E i \in 1..MaxPix : /\ loc.unwData.data[i] # loc.NDV
                       /\ loc.connCompData.data[i] = 0
                       /\ loc.unwDataMasked.mask[i]

Export(c) == {t.op : t \in {u \in trlog : u.cell = c}}

\* C9: the export of a cell of section 4.1 and of its counterpart of section
\* 4.2 are one translation: same format, scaling, creation options and
\* window, same sub-dataset of the same file, same output file
C9_PythonEqualsCli ==
  \A pair \in {<<G_41_Full.id, G_42_Full.id>>, <<G_41_Crop.id, G_42_Crop.id>>} :
    \A a \in Export(pair[1]) : \A b \in Export(pair[2]) :
      /\ a = b
      /\ a.of = <<"KMLSUPEROVERLAY">>
      /\ a.scale
      /\ a.co = {<<"format", "=", "png">>}
      /\ a.src[2] = <<SLASH, "science", SLASH, "grids", SLASH, "data", SLASH,
                      "unwrappedPhase">>

\* both exports have been made both ways
C9_Witness ==
  /\ \A c \in {G_41_Full.id, G_42_Full.id, G_41_Crop.id, G_42_Crop.id} :
       Export(c) # {}
  /\ \E t \in trlog : t.by = "py"
  /\ \E t \in trlog : t.by = "cli"

\* -projwin -81.00 42.30 -80.00 41.50, in thousandths
Window == <<-81000, 42300, -80000, 41500>>

\* C10: a cropped export is the full export with the window added and another
\* output name; the window is W N E S with W < E and S < N
C10_CropAddsWindow ==
  \A pair \in {<<G_41_Full.id, G_41_Crop.id>>, <<G_42_Full.id, G_42_Crop.id>>} :
    \A f \in Export(pair[1]) : \A c \in Export(pair[2]) :
      /\ f.projwin = <<>>
      /\ c.projwin = Window
      /\ c.projwin[1] < c.projwin[3]
      /\ c.projwin[4] < c.projwin[2]
      /\ c.dst # f.dst
      /\ [c EXCEPT !.projwin = f.projwin, !.dst = f.dst] = f

\* section 4 has been run: a full and a cropped export by each way
C10_Witness ==
  /\ nb = "gdal"
  /\ Len(order) = Len(Secs)
  /\ \E f \in Export(G_41_Full.id) : \E c \in Export(G_41_Crop.id) : c # f
  /\ \E f \in Export(G_42_Full.id) : \E c \in Export(G_42_Crop.id) : c # f

\* the value process p gives to the --bbox (-b) option of ariaDownload.py
BBoxOf(p) ==
  OptVal(ArgScan(Tail(p.words), DownloadValued, NoArgs),
         {<<"b">>, <<"bbox">>}, <<>>)

\* the running searches whose bounding box is written as coordinates and not
\* as the name of a shapefile
CoordSearches ==
  {p \in procs : /\ Head(p.words) = <<"ariaDownload.py">>
                 /\ BBoxOf(p) # <<>>
                 /\ (IsDigit(Head(BBoxOf(p))) \/ Head(BBoxOf(p)) = MINUS)}

\* the numbers of a coordinate box, in thousandths of a degree
BoxValues(b) == [i \in 1..Len(b) |-> ParseDecimal(b[i])]

\* four numbers in the order S N W E: latitudes first, south below north and
\* west before east
IsSNWE(v) ==
  /\ Len(v) = 4
  /\ -90000 <= v[1] /\ v[1] < v[2] /\ v[2] <= 90000
  /\ -180000 <= v[3] /\ v[3] < v[4] /\ v[4] <= 180000

\* C11: every coordinate bounding box handed to ariaDownload.py is four
\* numerals in the order S N W E, with south < north and west < east
C11_BboxSNWE ==
  \A p \in CoordSearches :
    /\ \A w \in Range(SplitOn(BBoxOf(p), SP)) : IsNumeral(w)
    /\ IsSNWE(BoxValues(SplitOn(BBoxOf(p), SP)))

\* the kernel waits for a search whose coordinate box has negative western
\* and eastern limits
C11_Witness ==
  /\ kernel = "wait"
  /\ \E p \in CoordSearches :
       /\ p.cell \in {G_Download.id, P_Download.id, D_Bbox.id, D_Ifg.id}
       /\ BoxValues(SplitOn(BBoxOf(p), SP))[3] < 0
       /\ BoxValues(SplitOn(BBoxOf(p), SP))[4] < 0

\* the options of ariaPlot.py in their documented spelling: the number of
\* dashes and the name
PlotInterface ==
  { <<1, <<"f">>>>, <<1, <<"b">>>>, <<2, <<"croptounion">>>>,
    <<2, <<"plotbperpcoh">>>>, <<2, <<"plotcoh">>>>, <<2, <<"makeavgoh">>>>,
    <<2, <<"plottracks">>>>, <<1, <<"w">>>>, <<1, <<"o">>>>, <<1, <<"h">>>> }

\* the options process p gives to ariaPlot.py, as they are spelled
PlotSpelled(p) ==
  {<<o.dashes, o.name>> : o \in Range(ArgScan(Tail(p.words), PlotValued, NoArgs).opts)}

\* the commands of ariaPlot.py that are running
PlotRuns == {p \in procs : Head(p.words) = <<"ariaPlot.py">>}

DownloadGiven(p) == ArgScan(Tail(p.words), DownloadValued, NoArgs)

\* the options the text above the download cell of GDAL_basics names: track
\* 77, the pair, a bounding box and the products folder
GdalDownloadAsDescribed(a) ==
  /\ OptVal(a, {<<"t">>, <<"track">>}, <<>>) = <<"7", "7">>
  /\ OptVal(a, {<<"i">>, <<"ifg">>}, <<>>) = <<"20190222_20190210">>
  /\ HasOpt(a, {<<"b">>, <<"bbox">>})
  /\ HasOpt(a, {<<"w">>, <<"workdir">>})

\* the options the text above the download cell of the ariaPlot tutorial
\* names: track 42, a bounding box, a start date, the end date and the
\* products folder
PlotDownloadAsDescribed(a) ==
  /\ OptVal(a, {<<"t">>, <<"track">>}, <<>>) = <<"4", "2">>
  /\ HasOpt(a, {<<"b">>, <<"bbox">>})
  /\ HasOpt(a, {<<"s">>, <<"start">>})
  /\ OptVal(a, {<<"e">>, <<"end">>}, <<>>) = <<"20160101">>
  /\ HasOpt(a, {<<"w">>, <<"workdir">>})

\* C13: the command each download cell runs carries every option that the
\* text above the cell says it uses
C13_DownloadAsDescribed ==
  \A p \in procs :
    /\ p.cell = G_Download.id => GdalDownloadAsDescribed(DownloadGiven(p))
    /\ p.cell = P_Download.id => PlotDownloadAsDescribed(DownloadGiven(p))

Unsupported ==
  /\ pl' = NoCall
  /\ aborted'
  /\ faults' = faults \cup {[cell |-> CurCell.id, line |-> 106, kind |-> "Exception"]}

\* C15: plot_layer raises 'Number of bands currently unsupported' exactly when
\* the raster has four bands or more; it does so after every band has been
\* read and the dataset handle set to None, and before any figure is made
C15_UnsupportedBands ==
  [][ /\ pl.pc = "layout" =>
           /\ Len(pl.lst_arrs) = pl.n_bands
           /\ pl.ds = "None"
           /\ pl.axe = 0
           /\ IF pl.n_bands >= 4 THEN Unsupported
              ELSE pl'.pc = "subplots" /\ faults' = faults
      /\ (\E f \in faults' \ faults : f.kind = "Exception") =>
           pl.pc = "layout" /\ pl.n_bands >= 4
      /\ pl'.pc \in {"subplots", "panel"} => pl'.n_bands < 4 ]_vars

\* a raster of four bands has been refused
C15_Witness ==
  /\ \E f \in faults : f.cell = P_PlotAvgCoh.id /\ f.line = 106 /\ f.kind = "Exception"
  /\ aborted
  /\ pl = NoCall
  /\ failed = {}

\* C16: for a raster of fewer than four bands plot_layer completes: the
\* figure has one row of n_bands panels, the plotting loop draws the bands in
\* order without an exception, and the call returns after the last band
C16_OnePanelPerBand ==
  [][ /\ pl.pc \in {"subplots", "panel"} =>
           /\ pl.n_bands < 4
           /\ faults' = faults
           /\ ~aborted'
      /\ pl'.pc = "panel" => pl'.axe = pl'.n_bands /\ pl'.i <= Len(pl'.lst_arrs)
      /\ (pl.pc = "panel" /\ pl'.pc = "idle") => pl.i = pl.n_bands ]_vars

\* the unwrapped-phase variable of a product
UnwrappedPhase ==
  <<SLASH, "science", SLASH, "grids", SLASH, "data", SLASH, "unwrappedPhase">>

\* "NETCDF:" + fileName + ":/science/grids/data/unwrappedPhase", as the
\* Python cells build it
PyName == <<"NETCDF", COLON>> \o ns["fileName"].v \o <<COLON>> \o UnwrappedPhase

\* the datasets the words of command p denote: netCDF sub-datasets and
\* netCDF files
CliDatasets(p) ==
  {d \in {OpenName(w, p.dir) : w \in Range(Tail(p.words))} : Last(d[1]) = ".nc"}

\* C17: with the session in the tutorial directory, which it is once Prep A
\* has run and after the download cell, the name the Python cells build and
\* the names the command lines spell denote the same sub-dataset of the same
\* file, and every cell names the same product file
C17_SameDataset ==
  (nb = "gdal" /\ "fileName" \in DOMAIN ns) =>
    /\ \A p \in procs :
         /\ \A d \in CliDatasets(p) : d[1] = ns["fileName"].v
         /\ \A d \in CliDatasets(p) : d[2] = UnwrappedPhase => d = OpenName(PyName, cwd)
    /\ \A n \in DOMAIN ns : ns[n].tag = "ds" => ns[n].v[1] = ns["fileName"].v
    /\ \A t \in trlog : t.op.src = OpenName(PyName, cwd)
    /\ (1 \in Range(order) \/ (cur = 2 /\ si > 1)) => cwd = ns["tutorial_home_dir"].v

\* gdalinfo runs on the quoted command-line name in a session started below
\* the root directory, after Python has exported the sub-dataset it opened under
\* the name it built
C17_Witness ==
  /\ nb = "gdal"
  /\ cwd = <<SLASH, "home", SLASH, "user", SLASH, "JupyterDocs">>
  /\ \E p \in procs :
       /\ p.cell = G_22_Info.id
       /\ \E d \in CliDatasets(p) : d[2] = UnwrappedPhase
  /\ \E t \in trlog : t.by = "py" /\ t.op.src = OpenName(PyName, cwd)

====
